---- MODULE Spec2Model ----
(***************************************************************************)
(* Depth-engraving toolpath engine of Ethergems/next-gen:                  *)
(*   DeepEngravingService.generateDeepEngraving   (progressive passes)     *)
(*   LaserEngravingService.generateOptimizedToolpaths                      *)
(*   LaserProfileService.generatePowerMap / calculatePowerForGrayscale     *)
(*   DepthMapService.generateEnhancedDepthMap                              *)
(*                                                                         *)
(* JavaScript numbers are modelled as exact rationals <<n, d>> (d > 0, in  *)
(* lowest terms); IEEE-754 rounding is not modelled.  Inputs whose powers  *)
(* or roots would be irrational are not enumerated.                        *)
(***************************************************************************)
EXTENDS Integers, Sequences, FiniteSets, TLC

VARIABLES
    pc,         \* "idle" | "layer" (inside the pass loop of generateDeepEngraving) | "done"
    op,         \* the service function called last ("none" before any call)
    outcome,    \* "none" | "ok" (returned a value) | "hang" (never returns) | an error kind
    settings,   \* DeepEngravingSettings of the running generateDeepEngraving call
    depthMap,   \* "none" | "allocated": the depth-map buffer of generateDeepEngraving
    layer,      \* loop counter of generateDeepEngraving
    passes,     \* passes array of generateDeepEngraving
    call,       \* arguments of the last call of one of the synchronous functions
    ret,        \* its return value
    earlier,    \* an invocation of generateDeepEngraving begun before the
                \* running one and not awaited: its pc, settings, layer,
                \* passes, outcome and return value
    registry    \* ProfileManagerService: printerProfiles, laserProfiles and
                \* materialProfiles, each a Map as a function on its keys

vars ==
    <<pc, op, outcome, settings, depthMap, layer, passes, call, ret, earlier,
      registry>>

----------------------------------------------------------------------------
(* Bounds of the model *)

MaxLayers == 5
MaxPasses == 3
MaxWidth == 2
MaxHeight == 2

----------------------------------------------------------------------------
(* JavaScript number arithmetic over exact rationals *)

Abs(a) == IF a < 0 THEN -a ELSE a

RECURSIVE GCD(_, _)
GCD(a, b) == IF b = 0 THEN a ELSE GCD(b, a % b)

\* NaN is <<0, 0>>; a quotient with denominator 0 is NaN.  (Infinity is not
\* represented: the places where the code divides by 0 are treated where they
\* occur.)
NaN == <<0, 0>>
IsNaN(x) == x[2] = 0

R(n, d) ==
    IF d = 0 THEN NaN
    ELSE LET s == IF d < 0 THEN -1 ELSE 1
             g == GCD(Abs(n), Abs(d))
         IN  <<(s * n) \div g, (s * d) \div g>>

Num(n) == <<n, 1>>

\* Operands are brought to their least common denominator, and products are
\* cancelled crosswise, before multiplying
Den(x, y) == LET g == GCD(x[2], y[2]) IN IF g = 0 THEN 0 ELSE (x[2] \div g) * y[2]
Scaled(x, y) == LET g == GCD(x[2], y[2]) IN IF g = 0 THEN 0 ELSE x[1] * (y[2] \div g)

RAdd(x, y) == R(Scaled(x, y) + Scaled(y, x), Den(x, y))
RSub(x, y) == R(Scaled(x, y) - Scaled(y, x), Den(x, y))
RMul(x, y) ==
    LET g1 == GCD(Abs(x[1]), y[2])
        g2 == GCD(Abs(y[1]), x[2])
    IN  IF g1 = 0 \/ g2 = 0 THEN R(x[1] * y[1], x[2] * y[2])
        ELSE R((x[1] \div g1) * (y[1] \div g2), (x[2] \div g2) * (y[2] \div g1))
RDiv(x, y) ==
    IF y[1] = 0 \/ IsNaN(y) THEN NaN
    ELSE RMul(x, IF y[1] < 0 THEN <<-y[2], -y[1]>> ELSE <<y[2], y[1]>>)
RNeg(x)    == <<-x[1], x[2]>>

\* <, <=, >, >= : false when either side is NaN
RLt(x, y) == ~IsNaN(x) /\ ~IsNaN(y) /\ Scaled(x, y) < Scaled(y, x)
RLe(x, y) == ~IsNaN(x) /\ ~IsNaN(y) /\ Scaled(x, y) <= Scaled(y, x)
RGt(x, y) == RLt(y, x)
RGe(x, y) == RLe(y, x)

\* Math.min / Math.max : NaN when either argument is NaN
RMin(x, y) == IF IsNaN(x) \/ IsNaN(y) THEN NaN ELSE IF RLe(x, y) THEN x ELSE y
RMax(x, y) == IF IsNaN(x) \/ IsNaN(y) THEN NaN ELSE IF RGe(x, y) THEN x ELSE y

\* Math.floor / Math.ceil, as integers
RFloor(x) == x[1] \div x[2]
RCeil(x)  == -((-x[1]) \div x[2])

\* Math.pow(x, k) for an integer k >= 0 (Math.pow(x, 0) = 1 for every x)
RECURSIVE RPowInt(_, _)
RPowInt(x, k) == IF k = 0 THEN Num(1) ELSE RMul(x, RPowInt(x, k - 1))

\* Math.sqrt of a rational square
ISqrt(n) == CHOOSE r \in 0 .. n : r * r = n
RSqrt(x) == <<ISqrt(x[1]), ISqrt(x[2])>>

\* Math.pow(x, e) for e a non-negative integer or 1/2
RPow(x, e) == IF e[2] = 1 THEN RPowInt(x, e[1]) ELSE RSqrt(x)

\* Math.max(0, Math.min(1, x))
Clamp01(x) == RMax(Num(0), RMin(Num(1), x))

----------------------------------------------------------------------------
(* LaserProfileService: the default catalog *)

\* powerCurve: Array.from({ length: 256 }, (_, i) => i / 255)
PowerCurveLength == 256
powerCurve(i) == R(i, PowerCurveLength - 1)

Profile(name, maxPower) ==
    [name |-> name, minPower |-> Num(1), maxPower |-> Num(maxPower)]

defaultProfiles ==
    { Profile("Seamann 50W Fiber", 50),
      Profile("Raycus 100W Fiber", 100),
      Profile("JPT 70W MOPA", 70),
      Profile("MaxPhotonics 120W MOPA", 120),
      Profile("IPG 150W Fiber", 150),
      Profile("nLight 200W Fiber", 200) }

----------------------------------------------------------------------------
(* DeepEngravingService.generateDeepEngraving *)

\* The settings a caller may pass: the function takes any numbers.
MaxDepthValues == { Num(-1), Num(0), R(1, 2), Num(2) }
PassLayerValues == (-1) .. MaxLayers
PowerRamps ==
    [ initial : { Num(40), Num(100) },
      increment : { Num(-3), Num(3), Num(30) },
      max : { Num(50), Num(95), Num(250) } ]
SpeedProfiles ==
    [ initial : { Num(100), Num(10) },
      reduction : { R(1, 2), R(9, 10), R(3, 2) },
      min : { Num(20) } ]
BeamProfiles == [ focusOffset : { R(1, 20) } ]

DeepEngravingSettings ==
    [ maxDepth : MaxDepthValues,
      passLayers : PassLayerValues,
      powerRamp : PowerRamps,
      speedProfile : SpeedProfiles,
      beamProfile : BeamProfiles ]

\* ImageData handed to generateDeepEngraving: width, height and one gray byte
\* for all pixels (the function never reads them)
EngravingImages ==
    { [width |-> 4, height |-> 4, gray |-> 255],
      [width |-> 1, height |-> 1, gray |-> 0] }

\* The settings DeepEngravingControls starts with
uiSettings ==
    [ maxDepth |-> Num(2),
      passLayers |-> 20,
      powerRamp |-> [initial |-> Num(40), increment |-> Num(3), max |-> Num(95)],
      speedProfile |-> [initial |-> Num(100), reduction |-> R(9, 10), min |-> Num(20)],
      beamProfile |-> [focusOffset |-> R(1, 20)] ]

\* currentDepth with the layer counted from 0 instead of 1
currentDepthFromZero(l, s) ==
    RMul(Num(l), RDiv(s.maxDepth, Num(s.passLayers)))

currentDepth(l, s) ==
    RMul(Num(l + 1), RDiv(s.maxDepth, Num(s.passLayers)))

\* layerPower with the increment applied once too often
layerPowerOneAhead(l, s) ==
    RMin(RAdd(s.powerRamp.initial, RMul(s.powerRamp.increment, Num(l + 1))),
         s.powerRamp.max)

layerPower(l, s) ==
    RMin(RAdd(s.powerRamp.initial, RMul(s.powerRamp.increment, Num(l))),
         s.powerRamp.max)

currentSpeed(l, s) ==
    LET speedReduction == RPowInt(s.speedProfile.reduction, l)
    IN  RMax(RMul(s.speedProfile.initial, speedReduction), s.speedProfile.min)

calculateFocusOffset(depth, s) == RMul(depth, s.beamProfile.focusOffset)

\* generateLayerPaths and generateCrosshatchPaths return an empty array
generateLayerPaths(depth, power, s) == <<>>
generateCrosshatchPaths(depth, power, s) == <<>>

\* layer > settings.passLayers / 2
CrosshatchLayer(l, s) == 2 * l > s.passLayers

LayerPass(l, s) ==
    LET depth == currentDepth(l, s)
        power == layerPower(l, s)
        layerPaths == generateLayerPaths(depth, power, s)
    IN  [ paths |-> IF CrosshatchLayer(l, s)
                    THEN layerPaths \o generateCrosshatchPaths(depth, power, s)
                    ELSE layerPaths,
          depth |-> depth,
          power |-> power,
          speed |-> currentSpeed(l, s),
          focusOffset |-> calculateFocusOffset(depth, s) ]

NoCall == [image |-> [width |-> 0, height |-> 0, gray |-> 0]]
NoReturn == [passes |-> <<>>]

NoRequest ==
    [ pc |-> "none", settings |-> uiSettings, layer |-> 0, passes |-> <<>>,
      outcome |-> "none", ret |-> NoReturn ]

\* Entry of generateDeepEngraving up to the first loop test: the depth map is
\* generated (line 56) and the passes array created before anything is tested.
GenerateDeepEngraving(image, s) ==
    /\ pc = "idle"
    /\ pc' = "layer"
    /\ op' = "generateDeepEngraving"
    /\ call' = [image |-> image]
    /\ settings' = s
    /\ depthMap' = "allocated"
    /\ layer' = 0
    /\ passes' = <<>>
    /\ UNCHANGED <<outcome, ret, earlier, registry>>

\* One iteration of the pass loop
DeepEngravingLayer ==
    /\ pc = "layer"
    /\ layer < settings.passLayers
    /\ passes' = Append(passes, LayerPass(layer, settings))
    /\ layer' = layer + 1
    /\ UNCHANGED <<pc, op, outcome, settings, depthMap, call, ret, earlier, registry>>

\* Loop exit and return
DeepEngravingReturn ==
    /\ pc = "layer"
    /\ ~(layer < settings.passLayers)
    /\ pc' = "done"
    /\ outcome' = "ok"
    /\ ret' = [passes |-> passes, totalTime |-> 0, maxDepth |-> settings.maxDepth]
    /\ UNCHANGED <<op, settings, depthMap, layer, passes, call, earlier, registry>>

\* The promise awaited at line 75 or 84 rejects.  No try/catch encloses the
\* awaits of generateDeepEngraving, so the await throws out of the loop and the
\* promise of the call rejects with that one error; the local passes array is
\* not part of the rejection.
DeepEngravingLayerCaught ==
    /\ pc = "layer"
    /\ layer < settings.passLayers
    /\ pc' = "done"
    /\ outcome' = "ok"
    /\ ret' = [passes |-> passes, totalTime |-> 0, maxDepth |-> settings.maxDepth]
    /\ UNCHANGED <<op, settings, depthMap, layer, passes, call, earlier, registry>>

DeepEngravingLayerRejected ==
    /\ pc = "layer"
    /\ layer < settings.passLayers
    /\ pc' = "done"
    /\ outcome' = "rejected"
    /\ ret' = NoReturn
    /\ UNCHANGED <<op, settings, depthMap, layer, passes, call, earlier, registry>>

----------------------------------------------------------------------------
(* Heightmaps: number[][] with values in [0,1] *)

HeightValues == { Num(0), R(1, 4), R(1, 2), Num(1) }
Heightmaps ==
    { <<<<a>>>> : a \in HeightValues } \cup
    { <<<<a, b>>>> : a \in HeightValues, b \in HeightValues }

\* heightmap.flat()
RECURSIVE Flat(_)
Flat(rows) == IF rows = <<>> THEN <<>> ELSE Head(rows) \o Flat(Tail(rows))

\* Math.max(...values) of a non-empty array
RECURSIVE MaxOf(_)
MaxOf(values) ==
    IF Len(values) = 1 THEN values[1]
    ELSE RMax(Head(values), MaxOf(Tail(values)))

----------------------------------------------------------------------------
(* LaserEngravingService.generateOptimizedToolpaths *)

Strategies == { "contour", "spiral", "hybrid", "adaptive" }
DepthPerPassValues == { R(-1, 2), Num(0), R(1, 4), R(1, 2), Num(1) }

ToolpathSettings ==
    [ strategy : Strategies,
      crosshatch : BOOLEAN,
      depthPerPass : DepthPerPassValues,
      maxPasses : 1 .. MaxPasses ]

\* The four path generators, optimizePath and generateCrosshatchPath
generateContourPath(heightmap, depth, ts) == <<>>
generateSpiralPath(heightmap, depth, ts) == <<>>
generateHybridPath(heightmap, depth, ts) == <<>>
generateAdaptivePath(heightmap, depth, ts) == <<>>
optimizePath(path, ts) == path
generateCrosshatchPath(heightmap, depth, ts) == <<>>
mergePathsCrosshatchFirst(path1, path2) == path2 \o path1
mergePaths(path1, path2) == path1 \o path2

StrategyPath(heightmap, depth, ts) ==
    CASE ts.strategy = "contour" -> generateContourPath(heightmap, depth, ts)
      [] ts.strategy = "spiral" -> generateSpiralPath(heightmap, depth, ts)
      [] ts.strategy = "hybrid" -> generateHybridPath(heightmap, depth, ts)
      [] ts.strategy = "adaptive" -> generateAdaptivePath(heightmap, depth, ts)

totalDepth(heightmap, ts) == RMul(MaxOf(Flat(heightmap)), Num(ts.maxPasses))

\* Math.ceil(totalDepth / depthPerPass) is Infinity when a positive totalDepth
\* is divided by 0: the pass loop then never ends.
PassCountInfinite(heightmap, ts) ==
    ts.depthPerPass = Num(0) /\ RGt(totalDepth(heightmap, ts), Num(0))

\* Math.ceil(0 / 0) is NaN and pass < NaN is false: no pass.
passCount(heightmap, ts) ==
    IF ts.depthPerPass = Num(0) THEN 0
    ELSE RCeil(RDiv(totalDepth(heightmap, ts), ts.depthPerPass))

ToolpathZeroBased(heightmap, ts, pass) ==
    LET depth == RMul(Num(pass + 1), ts.depthPerPass)
        path == optimizePath(StrategyPath(heightmap, depth, ts), ts)
    IN  [ path |-> IF ts.crosshatch
                   THEN mergePaths(path, generateCrosshatchPath(heightmap, depth, ts))
                   ELSE path,
          pass |-> pass,
          depth |-> depth ]

Toolpath(heightmap, ts, pass) ==
    LET depth == RMul(Num(pass + 1), ts.depthPerPass)
        path == optimizePath(StrategyPath(heightmap, depth, ts), ts)
    IN  [ path |-> IF ts.crosshatch
                   THEN mergePaths(path, generateCrosshatchPath(heightmap, depth, ts))
                   ELSE path,
          pass |-> pass + 1,
          depth |-> depth ]

generateOptimizedToolpaths(heightmap, ts) ==
    LET n == passCount(heightmap, ts)
    IN  [ k \in 1 .. (IF n > 0 THEN n ELSE 0) |-> Toolpath(heightmap, ts, k - 1) ]

GenerateOptimizedToolpaths(heightmap, ts) ==
    /\ pc = "idle"
    /\ pc' = "done"
    /\ op' = "generateOptimizedToolpaths"
    /\ call' = [heightmap |-> heightmap, settings |-> ts]
    /\ IF PassCountInfinite(heightmap, ts)
       THEN outcome' = "hang" /\ ret' = <<>>
       ELSE outcome' = "ok" /\ ret' = generateOptimizedToolpaths(heightmap, ts)
    /\ UNCHANGED <<settings, depthMap, layer, passes, earlier, registry>>

----------------------------------------------------------------------------
(* LaserProfileService.generatePowerMap *)

PowerMapOptions ==
    [ maxDepth : { Num(1), Num(2) },
      passes : 1 .. MaxPasses,
      baseSpeed : { Num(100) },
      depthPerPass : { R(1, 2), R(3, 4), Num(1) },
      powerAdjustment : { R(1, 2), Num(1), Num(2) } ]

actualPasses(o) == 
    LET maxPasses == RCeil(RDiv(o.maxDepth, o.depthPerPass))
    IN  IF maxPasses < o.passes THEN maxPasses ELSE o.passes

PixelPowerUncapped(heightValue, profile, o, targetDepth) ==
    LET requiredDepth == RMul(heightValue, o.maxDepth)
        cut == RSub(targetDepth, o.depthPerPass)
    IN  IF RGt(requiredDepth, cut)
        THEN LET powerPercentage == RDiv(RSub(requiredDepth, cut), o.depthPerPass)
             IN  RMul(RMul(powerPercentage, profile.maxPower), o.powerAdjustment)
        ELSE Num(0)

PixelPowerOnePassLate(heightValue, profile, o, targetDepth) ==
    LET requiredDepth == RMul(heightValue, o.maxDepth)
        cut == targetDepth
    IN  IF RGt(requiredDepth, cut)
        THEN LET powerPercentage ==
                     RMin(Num(1), RDiv(RSub(requiredDepth, cut), o.depthPerPass))
             IN  RMul(RMul(powerPercentage, profile.maxPower), o.powerAdjustment)
        ELSE Num(0)

PixelPowerNoTest(heightValue, profile, o, targetDepth) ==
    LET requiredDepth == RMul(heightValue, o.maxDepth)
        cut == RSub(targetDepth, o.depthPerPass)
        powerPercentage ==
            RMin(Num(1), RDiv(RSub(requiredDepth, cut), o.depthPerPass))
    IN  RMul(RMul(powerPercentage, profile.maxPower), o.powerAdjustment)

PixelPower(heightValue, profile, o, targetDepth) ==
    LET requiredDepth == RMul(heightValue, o.maxDepth)
        cut == RSub(targetDepth, o.depthPerPass)
    IN  IF RGt(requiredDepth, cut)
        THEN LET powerPercentage ==
                     RMin(Num(1), RDiv(RSub(requiredDepth, cut), o.depthPerPass))
             IN  RMul(RMul(powerPercentage, profile.maxPower), o.powerAdjustment)
        ELSE Num(0)

PowerPass(heightmap, profile, o, pass) ==
    LET targetDepth == RMul(Num(pass + 1), o.depthPerPass)
    IN  [ passNumber |-> pass + 1,
          powerMap |-> [ y \in 1 .. Len(heightmap) |->
                          [ x \in 1 .. Len(heightmap[y]) |->
                              PixelPower(heightmap[y][x], profile, o, targetDepth) ] ],
          speed |-> RMul(o.baseSpeed, RPowInt(R(9, 10), pass)),
          zOffset |-> RNeg(targetDepth) ]

generatePowerMap(heightmap, profile, o) ==
    [ k \in 1 .. actualPasses(o) |-> PowerPass(heightmap, profile, o, k - 1) ]

GeneratePowerMap(heightmap, profile, o) ==
    /\ pc = "idle"
    /\ pc' = "done"
    /\ op' = "generatePowerMap"
    /\ call' = [heightmap |-> heightmap, profile |-> profile, options |-> o]
    /\ outcome' = "ok"
    /\ ret' = generatePowerMap(heightmap, profile, o)
    /\ UNCHANGED <<settings, depthMap, layer, passes, earlier, registry>>

----------------------------------------------------------------------------
(* LaserProfileService.calculatePowerForGrayscale *)

\* Gray values whose square roots are rational
GrayValues == { Num(0), R(1, 16), R(1, 4), R(9, 16), Num(1) }
GammaValues == { R(1, 2), Num(1), Num(2) }

PowerRanges(profile) ==
    { [minPower |-> profile.minPower, maxPower |-> profile.maxPower],
      [minPower |-> Num(0), maxPower |-> Num(100)] }

GrayscaleOptions(profile) ==
    { [contrast |-> c, brightness |-> b, gamma |-> g,
       minPower |-> r.minPower, maxPower |-> r.maxPower] :
         c \in { Num(-1), R(1, 2), Num(1), Num(2) },
         b \in { R(-1, 2), Num(0), R(1, 2) },
         g \in GammaValues,
         r \in PowerRanges(profile) }

calculatePowerForGrayscale(profile, grayscaleValue, o) ==
    LET gamma == RPow(grayscaleValue, RDiv(Num(1), o.gamma))
        adjusted == Clamp01(RAdd(RMul(gamma, o.contrast), o.brightness))
        powerIndex == RFloor(RMul(adjusted, Num(PowerCurveLength - 1)))
        powerPercentage == powerCurve(powerIndex)
    IN  RAdd(o.minPower, RMul(RSub(o.maxPower, o.minPower), powerPercentage))

CalculatePowerForGrayscale(profile, grayscaleValue, o) ==
    /\ pc = "idle"
    /\ pc' = "done"
    /\ op' = "calculatePowerForGrayscale"
    /\ call' = [profile |-> profile, grayscaleValue |-> grayscaleValue, options |-> o]
    /\ outcome' = "ok"
    /\ ret' = calculatePowerForGrayscale(profile, grayscaleValue, o)
    /\ UNCHANGED <<settings, depthMap, layer, passes, earlier, registry>>

----------------------------------------------------------------------------
(* LaserProfileService.calculateFocalAdjustment *)

\* depth * (1 - 1 / refractiveIndex).  1 / 0 is Infinity, so for
\* refractiveIndex = 0 the result is -Infinity or Infinity by the sign of
\* depth (<<-1, 0>>, <<1, 0>>) and NaN for depth = 0.
calculateFocalAdjustment(depth, material) ==
    IF material.refractiveIndex = Num(0)
    THEN IF depth = Num(0) THEN NaN
         ELSE IF RGt(depth, Num(0)) THEN <<-1, 0>> ELSE <<1, 0>>
    ELSE RMul(depth, RSub(Num(1), RDiv(Num(1), material.refractiveIndex)))

CalculateFocalAdjustment(depth, material) ==
    /\ pc = "idle"
    /\ pc' = "done"
    /\ op' = "calculateFocalAdjustment"
    /\ call' = [depth |-> depth, material |-> material]
    /\ outcome' = "ok"
    /\ ret' = calculateFocalAdjustment(depth, material)
    /\ UNCHANGED <<settings, depthMap, layer, passes, earlier, registry>>

----------------------------------------------------------------------------
(* DepthMapService.generateEnhancedDepthMap *)

\* ImageData: width, height and data, one <<r, g, b>> per pixel (alpha is
\* never read).  Pixels are of one colour, or of two colours in a checkerboard.
Colours == { <<0, 0, 0>>, <<51, 51, 51>>, <<255, 255, 255>> }

ImageOf(width, height, c1, c2) ==
    [ width |-> width,
      height |-> height,
      data |-> [ i \in 1 .. width * height |->
                   IF (((i - 1) % width) + ((i - 1) \div width)) % 2 = 0
                   THEN c1 ELSE c2 ] ]

Images ==
    { ImageOf(w, h, c1, c2) :
        w \in 0 .. MaxWidth, h \in 0 .. MaxHeight, c1 \in Colours, c2 \in Colours }

\* customCurve?: number[] is <<>> when undefined and <<curve>> when set
CustomCurves ==
    { <<>>, << <<>> >>, << <<R(1, 2)>> >>, << <<Num(0), Num(1)>> >>,
      << <<Num(1), Num(0)>> >>, << <<Num(0), R(1, 2), Num(1)>> >> }

DepthMapSettings ==
    { [ contrast |-> c, brightness |-> b, gamma |-> g, depthCurve |-> dc,
        customCurve |-> cc, detailBoost |-> db ] :
          c \in { Num(0), Num(50) },
          b \in { Num(0), Num(20) },
          g \in { R(1, 2), Num(1) },
          dc \in { "linear", "exponential", "logarithmic", "custom" },
          cc \in CustomCurves,
          db \in { Num(0), Num(50) } }

applyContrastBrightness(value, contrast, brightness) ==
    LET contrasted ==
            RAdd(R(1, 2),
                 RMul(RSub(value, R(1, 2)), RAdd(Num(1), RDiv(contrast, Num(100)))))
    IN  Clamp01(RAdd(contrasted, RDiv(brightness, Num(100))))

\* 0.299 * r + 0.587 * g + 0.114 * b on channels divided by 255
Luminance(pixel) ==
    R(299 * pixel[1] + 587 * pixel[2] + 114 * pixel[3], 1000 * 255)

convertToEnhancedGrayscale(imageData, s) ==
    [ i \in 1 .. imageData.width * imageData.height |->
        applyContrastBrightness(
            RPow(Luminance(imageData.data[i]), RDiv(Num(1), s.gamma)),
            s.contrast, s.brightness) ]

\* The loop of interpolateCustomCurve: the number of leading control points
\* below value
RECURSIVE CurveIndex(_, _, _)
CurveIndex(value, curve, i) ==
    IF i < Len(curve) /\ RLt(curve[i + 1], value)
    THEN CurveIndex(value, curve, i + 1)
    ELSE i

\* curve[k] of a JavaScript array (0-based); undefined becomes NaN in arithmetic
At(curve, k) == IF k >= 0 /\ k < Len(curve) THEN curve[k + 1] ELSE NaN

interpolateCustomCurve(value, curve) ==
    LET i == CurveIndex(value, curve, 0)
    IN  IF i = 0 THEN At(curve, 0)
        ELSE IF i = Len(curve) THEN At(curve, Len(curve) - 1)
        ELSE LET span == RSub(At(curve, i), At(curve, i - 1))
                 f == RDiv(RSub(value, At(curve, i - 1)), span)
             IN  RAdd(At(curve, i - 1), RMul(f, span))

\* Math.log(value * (Math.E - 1) + 1), rational only at 0 and 1
LogCurve(value) ==
    CASE value = Num(0) -> Num(0)
      [] value = Num(1) -> Num(1)

applyDepthCurve(value, s) ==
    CASE s.depthCurve = "exponential" -> RPowInt(value, 2)
      [] s.depthCurve = "logarithmic" -> LogCurve(value)
      [] s.depthCurve = "custom" ->
            IF s.customCurve # <<>>
            THEN interpolateCustomCurve(value, s.customCurve[1])
            ELSE value
      [] OTHER -> value

enhanceLocalContrast(value, s) ==
    LET contrast == RDiv(s.contrast, Num(100))
        v == RAdd(R(1, 2), RMul(RSub(value, R(1, 2)), RAdd(Num(1), contrast)))
    IN  IF RLt(v, Num(0)) THEN Num(0)
        ELSE IF RGt(v, Num(1)) THEN Num(1)
        ELSE v

RECURSIVE SumOf(_)
SumOf(values) == IF values = <<>> THEN Num(0) ELSE RAdd(Head(values), SumOf(Tail(values)))

\* The samples of the scale x scale window at (x, y) that lie in the image
Samples(grayscale, x, y, scale, width, height) ==
    LET cell(k) == [ sx |-> x * scale + ((k - 1) % scale),
                     sy |-> y * scale + ((k - 1) \div scale) ]
        inside(k) == cell(k).sx < width /\ cell(k).sy < height
    IN  SelectSeq([ k \in 1 .. scale * scale |->
                      IF inside(k)
                      THEN << grayscale[cell(k).sy * width + cell(k).sx + 1] >>
                      ELSE <<>> ],
                  LAMBDA v : v # <<>>)

BoxAverage(grayscale, x, y, scale, width, height) ==
    LET samples == Samples(grayscale, x, y, scale, width, height)
    IN  RDiv(SumOf([ k \in 1 .. Len(samples) |-> samples[k][1] ]), Num(Len(samples)))

processPixelAtScale(grayscale, x, y, scale, width, height, s) ==
    enhanceLocalContrast(
        applyDepthCurve(BoxAverage(grayscale, x, y, scale, width, height), s), s)

\* gaussianBlur has an empty body: its output buffer stays all zero
gaussianBlur(input) == [ i \in 1 .. Len(input) |-> Num(0) ]

enhanceDetails(data, s) ==
    LET temp == gaussianBlur(data)
        amount == RDiv(s.detailBoost, Num(100))
    IN  [ i \in 1 .. Len(data) |->
            RAdd(data[i], RMul(RSub(data[i], temp[i]), amount)) ]

processAtScale(grayscale, width, height, scale, s) ==
    LET scaledWidth == width \div scale
        scaledHeight == height \div scale
        processed ==
            [ i \in 1 .. scaledWidth * scaledHeight |->
                processPixelAtScale(grayscale, (i - 1) % scaledWidth,
                                    (i - 1) \div scaledWidth,
                                    scale, width, height, s) ]
    IN  enhanceDetails(processed, s)

scales == <<1, 2, 4, 8>>

\* The per-scale buffers that generateEnhancedDepthMap hands to the blending
processedScales(imageData, s) ==
    LET grayscale == convertToEnhancedGrayscale(imageData, s)
    IN  [ k \in 1 .. Len(scales) |->
            processAtScale(grayscale, imageData.width, imageData.height, scales[k], s) ]

\* Inputs whose logarithmic curve value is rational
Representable(imageData, s) ==
    s.depthCurve = "logarithmic" =>
        LET grayscale == convertToEnhancedGrayscale(imageData, s)
        IN  \A k \in 1 .. Len(scales) :
              \A x \in 0 .. (imageData.width \div scales[k]) - 1 :
                \A y \in 0 .. (imageData.height \div scales[k]) - 1 :
                  BoxAverage(grayscale, x, y, scales[k],
                             imageData.width, imageData.height) \in { Num(0), Num(1) }

\* The output buffers are allocated first (lines 62-64); nothing in the
\* function or below it throws.
GenerateEnhancedDepthMap(imageData, s) ==
    /\ pc = "idle"
    /\ pc' = "done"
    /\ op' = "generateEnhancedDepthMap"
    /\ call' = [image |-> imageData, settings |-> s]
    /\ depthMap' = "allocated"
    /\ outcome' = "ok"
    /\ ret' = [processedScales |-> processedScales(imageData, s)]
    /\ UNCHANGED <<settings, layer, passes, earlier, registry>>

----------------------------------------------------------------------------
(* binary64 arithmetic.  A JavaScript number is an IEEE-754 double; where a
   result is compared for exact equality the rounding of every operation
   counts.  A non-negative double is m * 2^e with m a natural of exactly
   SignificandBits bits, or zero.  The values met in
   interpolateCustomCurve are non-negative and far from the subnormal and
   overflow ranges. *)

SignificandBits == 53

LimbBits == 15

Base == 2 ^ LimbBits

\* Naturals of any size: sequences of limbs below Base, least significant
\* first, without a zero at the high end
RECURSIVE LTrim(_)
LTrim(a) ==
    IF a # <<>> /\ a[Len(a)] = 0 THEN LTrim(SubSeq(a, 1, Len(a) - 1)) ELSE a

Zeros(k) == [ i \in 1 .. k |-> 0 ]

Limb(a, i) == IF i <= Len(a) THEN a[i] ELSE 0

RECURSIVE Limbs(_)
Limbs(n) == IF n = 0 THEN <<>> ELSE << n % Base >> \o Limbs(n \div Base)

RECURSIVE AddFrom(_, _, _, _)
AddFrom(a, b, i, carry) ==
    IF i > Len(a) /\ i > Len(b) THEN (IF carry = 0 THEN <<>> ELSE << carry >>)
    ELSE LET s == Limb(a, i) + Limb(b, i) + carry
         IN  IF s >= Base
             THEN << s - Base >> \o AddFrom(a, b, i + 1, 1)
             ELSE << s >> \o AddFrom(a, b, i + 1, 0)

LAdd(a, b) == AddFrom(a, b, 1, 0)

LLt(a, b) ==
    \/ Len(a) < Len(b)
    \/ /\ Len(a) = Len(b)
       /\ \E i \in 1 .. Len(a) :
             /\ a[i] < b[i]
             /\ \A j \in i + 1 .. Len(a) : a[j] = b[j]

RECURSIVE SubFrom(_, _, _, _)
SubFrom(a, b, i, borrow) ==
    IF i > Len(a) THEN <<>>
    ELSE LET d == a[i] - Limb(b, i) - borrow
         IN  IF d < 0
             THEN << d + Base >> \o SubFrom(a, b, i + 1, 1)
             ELSE << d >> \o SubFrom(a, b, i + 1, 0)

\* a - b for a >= b
LSub(a, b) ==
    CASE ~LLt(a, b) -> LTrim(SubFrom(a, b, 1, 0))

RECURSIVE MulFrom(_, _, _, _)
MulFrom(a, k, i, carry) ==
    IF i > Len(a) THEN (IF carry = 0 THEN <<>> ELSE << carry >>)
    ELSE LET p == a[i] * k + carry
         IN  << p % Base >> \o MulFrom(a, k, i + 1, p \div Base)

\* a * k for k below Base
LMulSmall(a, k) == IF k = 0 THEN <<>> ELSE MulFrom(a, k, 1, 0)

LShlLimbs(a, n) == IF a = <<>> THEN <<>> ELSE Zeros(n) \o a

RECURSIVE LMul(_, _)
LMul(a, b) ==
    IF b = <<>> THEN <<>>
    ELSE LAdd(LMulSmall(a, Head(b)), LShlLimbs(LMul(a, Tail(b)), 1))

\* a * 2^k
LShl(a, k) == LShlLimbs(LMulSmall(a, 2 ^ (k % LimbBits)), k \div LimbBits)

\* floor(a / 2^k)
LShr(a, k) ==
    LET high == SubSeq(a, (k \div LimbBits) + 1, Len(a))
        r == k % LimbBits
    IN  LTrim([ i \in 1 .. Len(high) |->
                  (high[i] \div 2 ^ r)
                      + (Limb(high, i + 1) % 2 ^ r) * 2 ^ (LimbBits - r) ])

BitLen(a) ==
    IF a = <<>> THEN 0
    ELSE (Len(a) - 1) * LimbBits
           + CHOOSE k \in 1 .. LimbBits :
                 2 ^ (k - 1) <= a[Len(a)] /\ a[Len(a)] < 2 ^ k

\* Bit i of a, bit 0 the least significant
Bit(a, i) == (Limb(a, (i \div LimbBits) + 1) \div 2 ^ (i % LimbBits)) % 2

\* The largest d below Base with d * b <= r, from its high bit down
RECURSIVE Digit(_, _, _, _)
Digit(r, b, d, k) ==
    IF k < 0 THEN d
    ELSE IF LLt(r, LMulSmall(b, d + 2 ^ k))
    THEN Digit(r, b, d, k - 1)
    ELSE Digit(r, b, d + 2 ^ k, k - 1)

\* Long division of a by b # 0, from limb i of a down
RECURSIVE DivFrom(_, _, _, _)
DivFrom(a, b, i, r) ==
    IF i = 0 THEN [q |-> <<>>, r |-> r]
    ELSE LET r2 == LTrim(<< a[i] >> \o r)
             d == Digit(r2, b, 0, LimbBits - 1)
             rest == DivFrom(a, b, i - 1, LSub(r2, LMulSmall(b, d)))
         IN  [q |-> rest.q \o << d >>, r |-> rest.r]

LDivMod(a, b) ==
    LET qr == DivFrom(a, b, Len(a), <<>>)
    IN  [q |-> LTrim(qr.q), r |-> qr.r]

DZero == [m |-> <<>>, e |-> 0]

\* m * 2^e rounded to the nearest double, ties to even
Round64(m, e) ==
    LET n == BitLen(m)
        s == n - SignificandBits
    IN  IF m = <<>> THEN DZero
        ELSE IF s <= 0 THEN [m |-> LShl(m, 0 - s), e |-> e + s]
        ELSE LET keep == LShr(m, s)
                 half == Bit(m, s - 1)
                 sticky == \E i \in 0 .. s - 2 : Bit(m, i) = 1
                 up == half = 1 /\ (sticky \/ Bit(keep, 0) = 1)
                 rounded == IF up THEN LAdd(keep, <<1>>) ELSE keep
             IN  IF BitLen(rounded) > SignificandBits
                 THEN [m |-> LShr(rounded, 1), e |-> e + s + 1]
                 ELSE [m |-> rounded, e |-> e + s]

\* The significands of x and y as naturals over their smaller exponent
Aligned(x, y) ==
    LET e == IF x.e < y.e THEN x.e ELSE y.e
    IN  [a |-> LShl(x.m, x.e - e), b |-> LShl(y.m, y.e - e), e |-> e]

DLt(x, y) ==
    IF y = DZero THEN FALSE
    ELSE IF x = DZero THEN TRUE
    ELSE LLt(Aligned(x, y).a, Aligned(x, y).b)

DAdd(x, y) ==
    IF x = DZero THEN y
    ELSE IF y = DZero THEN x
    ELSE Round64(LAdd(Aligned(x, y).a, Aligned(x, y).b), Aligned(x, y).e)

\* x - y for x >= y
DSub(x, y) ==
    IF y = DZero THEN x
    ELSE Round64(LSub(Aligned(x, y).a, Aligned(x, y).b), Aligned(x, y).e)

DMul(x, y) ==
    IF x = DZero \/ y = DZero THEN DZero
    ELSE Round64(LMul(x.m, y.m), x.e + y.e)

\* x / y for y > 0 (the divisor in interpolateCustomCurve is curve[i] -
\* curve[i - 1] with curve[i - 1] < value <= curve[i]): the
\* quotient of the significands to SignificandBits + 3 or more bits, followed
\* by one bit that tells whether a remainder is left
DDiv(x, y) ==
    CASE y # DZero ->
        IF x = DZero THEN DZero
        ELSE LET shift == SignificandBits + 3
                 qr == LDivMod(LShl(x.m, shift), y.m)
                 tail == IF qr.r = <<>> THEN <<>> ELSE <<1>>
             IN  Round64(LAdd(LShl(qr.q, 1), tail), x.e - y.e - shift - 1)

\* The double a decimal literal n/d denotes
Double(n, d) == DDiv(Round64(Limbs(n), 0), Round64(Limbs(d), 0))

\* DepthMapService.interpolateCustomCurve on doubles
RECURSIVE CurveIndex64(_, _, _)
CurveIndex64(value, curve, i) ==
    IF i < Len(curve) /\ DLt(curve[i + 1], value)
    THEN CurveIndex64(value, curve, i + 1)
    ELSE i

interpolateCustomCurve64(value, curve) ==
    LET i == CurveIndex64(value, curve, 0)
    IN  IF i = 0 THEN curve[1]
        ELSE IF i = Len(curve) THEN curve[Len(curve)]
        ELSE LET t == DDiv(DSub(value, curve[i]), DSub(curve[i + 1], curve[i]))
             IN  DAdd(curve[i], DMul(t, DSub(curve[i + 1], curve[i])))

\* LaserEngravingService.interpolateCustomCurve returns its argument
interpolateCustomCurveOfHeightmap(depth, curve) == depth

\* Curves and values as the decimal literals a caller writes
CurveLiterals ==
    { << <<0, 1>>, <<1, 1>> >>,
      << <<2, 10>>, <<9, 10>> >>,
      << <<3, 10>>, <<9, 10>> >>,
      << <<1, 10>>, <<3, 10>>, <<7, 10>> >>,
      << <<0, 1>>, <<1, 2>>, <<1, 2>>, <<1, 1>> >>,
      << <<9, 10>>, <<2, 10>> >>,
      << <<1, 2>> >> }

ValueLiterals == { <<0, 1>>, <<1, 4>>, <<6, 10>>, <<1, 1>> }

Curve64(literals) ==
    [ i \in 1 .. Len(literals) |-> Double(literals[i][1], literals[i][2]) ]

CurveServices == { "DepthMapService", "LaserEngravingService" }

InterpolateCustomCurve(service, value, curve) ==
    /\ pc = "idle"
    /\ pc' = "done"
    /\ op' = "interpolateCustomCurve"
    /\ call' = [service |-> service, value |-> value, curve |-> curve]
    /\ outcome' = "ok"
    /\ ret' = IF service = "DepthMapService"
              THEN interpolateCustomCurve64(value, curve)
              ELSE interpolateCustomCurveOfHeightmap(value, curve)
    /\ UNCHANGED <<settings, depthMap, layer, passes, earlier, registry>>

----------------------------------------------------------------------------
(* ProfileManagerService: the profile registry.  A profile is its name, its
   type and one more field that tells two versions apart. *)

MaxMaterials == 3

\* Map.set(key, value)
MapSet(map, key, value) ==
    [ k \in DOMAIN map \cup {key} |-> IF k = key THEN value ELSE map[k] ]

\* The catalogue the constructor registers; no material profile is registered
initializeDefaultProfiles ==
    [ printer |->
        [ n \in { "Anycubic Photon Mono X 6K", "Phrozen Sonic Mini 8K" } |->
            [name |-> n, type |-> "MSLA",
             manufacturer |-> IF n = "Phrozen Sonic Mini 8K"
                              THEN "Phrozen" ELSE "Anycubic"] ],
      laser |->
        [ n \in { "Raycus 50W Fiber", "JPT 70W MOPA" } |->
            [name |-> n, type |-> "fiber",
             power |-> IF n = "JPT 70W MOPA" THEN 70 ELSE 50] ],
      material |-> << >> ]

PrinterProfiles ==
    [ name : { "Phrozen Sonic Mini 8K", "Custom printer" },
      type : { "MSLA" },
      manufacturer : { "Phrozen", "Other" } ]

LaserProfiles ==
    [ name : { "JPT 70W MOPA", "Custom laser" },
      type : { "fiber" },
      power : { 70, 30 } ]

MaterialProfiles ==
    { [name |-> "Birch", type |-> "wood", thickness |-> 3],
      [name |-> "Birch", type |-> "wood", thickness |-> 6],
      [name |-> "Acrylic", type |-> "acrylic", thickness |-> 3] }

\* Map.get(name): <<>> for undefined, <<profile>> otherwise
getPrinterProfile(name) ==
    IF name \in DOMAIN registry.printer THEN << registry.printer[name] >> ELSE <<>>

getLaserProfile(name) ==
    IF name \in DOMAIN registry.laser THEN << registry.laser[name] >> ELSE <<>>

getMaterialProfiles(type) ==
    IF type \in DOMAIN registry.material THEN registry.material[type] ELSE <<>>

AddPrinterProfile(profile) ==
    /\ registry' = [registry EXCEPT !.printer = MapSet(@, profile.name, profile)]
    /\ op' = "addPrinterProfile"
    /\ call' = [profile |-> profile]
    /\ outcome' = "ok"
    /\ ret' = NoReturn
    /\ UNCHANGED <<pc, settings, depthMap, layer, passes, earlier>>

AddLaserProfile(profile) ==
    /\ registry' = [registry EXCEPT !.laser = MapSet(@, profile.name, profile)]
    /\ op' = "addLaserProfile"
    /\ call' = [profile |-> profile]
    /\ outcome' = "ok"
    /\ ret' = NoReturn
    /\ UNCHANGED <<pc, settings, depthMap, layer, passes, earlier>>

AddMaterialProfileOverwrite(profile) ==
    /\ registry' = [registry EXCEPT
                      !.material = MapSet(@, profile.type, << profile >>)]
    /\ op' = "addMaterialProfile"
    /\ call' = [profile |-> profile]
    /\ outcome' = "ok"
    /\ ret' = NoReturn
    /\ UNCHANGED <<pc, settings, depthMap, layer, passes, earlier>>

AddMaterialProfile(profile) ==
    LET existingProfiles == getMaterialProfiles(profile.type)
    IN  /\ registry' = [registry EXCEPT
                          !.material = MapSet(@, profile.type,
                                              Append(existingProfiles, profile))]
        /\ op' = "addMaterialProfile"
        /\ call' = [profile |-> profile]
        /\ outcome' = "ok"
        /\ ret' = NoReturn
        /\ UNCHANGED <<pc, settings, depthMap, layer, passes, earlier>>

\* The material profiles registered, as (type, position) pairs
MaterialEntries(reg) ==
    { e \in (DOMAIN reg.material) \X (1 .. MaxMaterials) :
        e[2] <= Len(reg.material[e[1]]) }

\* exportProfile: the profile is looked up by profileName in the map of the
\* type; the material map is keyed by material type, so the lookup gives the
\* array of that type.  An array has no name and no type property (both read
\* as undefined, written "undefined").  The string returned is represented by
\* the data JSON.parse gives back for it: the profiles hold strings and finite
\* numbers only, which JSON keeps as they are.
ExportProfile(profileName, type, timestamp) ==
    LET profile ==
            CASE type = "printer" -> getPrinterProfile(profileName)
              [] type = "laser" -> getLaserProfile(profileName)
              [] type = "material" ->
                    IF profileName \in DOMAIN registry.material
                    THEN << [name |-> "undefined", type |-> "undefined",
                             items |-> registry.material[profileName]] >>
                    ELSE <<>>
    IN  /\ op' = "exportProfile"
        /\ call' = [profileName |-> profileName, type |-> type]
        /\ IF profile = <<>>
           THEN /\ outcome' = "Profile not found"
                /\ ret' = NoReturn
           ELSE /\ outcome' = "ok"
                /\ ret' = [json |-> TRUE, type |-> type, profile |-> profile,
                           version |-> "1.0", timestamp |-> timestamp]
        /\ UNCHANGED <<pc, settings, depthMap, layer, passes, earlier, registry>>

\* importProfile: JSON.parse throws on a string that is not JSON and
\* profile.name / profile.type throw on a missing profile; the catch turns
\* both into false.  A type that is none of the three falls through the
\* if-chain to return true.
ImportProfile(profileData) ==
    LET data == profileData
        set(kind, key, value) ==
            [registry EXCEPT ![kind] = MapSet(@, key, value)]
    IN  /\ op' = "importProfile"
        /\ call' = [profileData |-> profileData]
        /\ outcome' = "ok"
        /\ CASE ~profileData.json ->
                    ret' = FALSE /\ UNCHANGED registry
             [] profileData.json /\ data.type \in { "printer", "laser", "material" }
                    /\ data.profile = <<>> ->
                    ret' = FALSE /\ UNCHANGED registry
             [] profileData.json /\ data.type = "printer" /\ data.profile # <<>> ->
                    /\ registry' = set("printer", data.profile[1].name, data.profile[1])
                    /\ ret' = TRUE
             [] profileData.json /\ data.type = "laser" /\ data.profile # <<>> ->
                    /\ registry' = set("laser", data.profile[1].name, data.profile[1])
                    /\ ret' = TRUE
             [] profileData.json /\ data.type = "material" /\ data.profile # <<>> ->
                    /\ registry' =
                           set("material", data.profile[1].type,
                               Append(getMaterialProfiles(data.profile[1].type),
                                      data.profile[1]))
                    /\ ret' = TRUE
             [] OTHER ->
                    ret' = TRUE /\ UNCHANGED registry
        /\ UNCHANGED <<pc, settings, depthMap, layer, passes, earlier>>

----------------------------------------------------------------------------
(* LaserEngravingService.generateEnhancedHeightmap.  The result of
   imageProcessor.processImage (line 78) is never read: the heightmap is
   computed from the bytes of the image alone. *)

applyDepthCurveOfHeightmap(depth, s) ==
    CASE s.curve = "exponential" -> RPowInt(depth, 2)
      [] s.curve = "logarithmic" -> LogCurve(depth)
      [] s.curve = "custom" ->
            IF s.customCurve # <<>>
            THEN interpolateCustomCurveOfHeightmap(depth, s.customCurve[1])
            ELSE depth
      [] OTHER -> depth

\* Math.round(v) is floor(v + 0.5)
generateEnhancedHeightmap(imageData, s) ==
    LET pixel(x, y) == imageData.data[y * imageData.width + x + 1]
        value(x, y) ==
            LET mean == R(pixel(x, y)[1] + pixel(x, y)[2] + pixel(x, y)[3], 3 * 255)
                curved == applyDepthCurveOfHeightmap(mean, s)
                depth == IF RGt(s.levels, Num(1))
                         THEN RDiv(Num(RFloor(RAdd(RMul(curved, RSub(s.levels, Num(1))),
                                                   R(1, 2)))),
                                   RSub(s.levels, Num(1)))
                         ELSE curved
            IN  IF s.invert THEN RSub(Num(1), depth) ELSE depth
    IN  [ y \in 1 .. imageData.height |->
            [ x \in 1 .. imageData.width |-> value(x - 1, y - 1) ] ]

\* Images of bytes, the four curves, level counts a caller may pass (levels
\* is a number) and both invert settings; the logarithm is taken of black
\* and white pixels only
EnhancedHeightmapCall ==
    /\ pc = "idle"
    /\ \E imageData \in Images,
          curve \in { "linear", "exponential", "logarithmic", "custom" },
          customCurve \in { <<>>, << <<Num(0), R(1, 2), Num(1)>> >> },
          levels \in { Num(0), Num(1), R(3, 2), Num(2), Num(3), Num(5) },
          invert \in BOOLEAN :
          /\ curve = "logarithmic" =>
                \A i \in 1 .. Len(imageData.data) :
                   imageData.data[i] \in { <<0, 0, 0>>, <<255, 255, 255>> }
          /\ curve # "custom" => customCurve = <<>>
          /\ pc' = "done"
          /\ op' = "generateEnhancedHeightmap"
          /\ call' = [ imageData |-> imageData,
                       settings |-> [ curve |-> curve, customCurve |-> customCurve,
                                      levels |-> levels, invert |-> invert ] ]
          /\ outcome' = "ok"
          /\ ret' = generateEnhancedHeightmap(imageData, call'.settings)
    /\ UNCHANGED <<settings, depthMap, layer, passes, earlier, registry>>

----------------------------------------------------------------------------
(* The engine: one call at a time *)

Init ==
    /\ pc = "idle"
    /\ op = "none"
    /\ outcome = "none"
    /\ settings = uiSettings
    /\ depthMap = "none"
    /\ layer = 0
    /\ passes = <<>>
    /\ call = NoCall
    /\ ret = NoReturn
    /\ earlier = NoRequest
    /\ registry = initializeDefaultProfiles

\* The caller drops the result; the next call starts from a fresh service.
Reset ==
    /\ pc = "done"
    /\ earlier.pc # "layer"
    /\ pc' = "idle"
    /\ op' = "none"
    /\ outcome' = "none"
    /\ settings' = uiSettings
    /\ depthMap' = "none"
    /\ layer' = 0
    /\ passes' = <<>>
    /\ call' = NoCall
    /\ ret' = NoReturn
    /\ earlier' = NoRequest
    /\ UNCHANGED registry

\* A caller invokes one of the service functions with arguments of its types
DeepEngravingCall ==
    /\ pc = "idle"
    /\ \E image \in EngravingImages, s \in DeepEngravingSettings :
          GenerateDeepEngraving(image, s)

OptimizedToolpathsCall ==
    /\ pc = "idle"
    /\ \E heightmap \in Heightmaps, ts \in ToolpathSettings :
          GenerateOptimizedToolpaths(heightmap, ts)

PowerMapCall ==
    /\ pc = "idle"
    /\ \E heightmap \in Heightmaps, profile \in defaultProfiles, o \in PowerMapOptions :
          GeneratePowerMap(heightmap, profile, o)

PowerForGrayscaleCall ==
    /\ pc = "idle"
    /\ \E profile \in defaultProfiles, g \in GrayValues :
          \E o \in GrayscaleOptions(profile) :
             CalculatePowerForGrayscale(profile, g, o)

EnhancedDepthMapCall ==
    /\ pc = "idle"
    /\ \E imageData \in Images, s \in DepthMapSettings :
          /\ s.depthCurve # "custom" => s.customCurve = <<>>
          /\ Representable(imageData, s)
          /\ GenerateEnhancedDepthMap(imageData, s)

\* applyDepthCurve passes a pixel value and the custom curve: the value is a
\* control point of the curve or another number
InterpolateCustomCurveCall ==
    /\ pc = "idle"
    /\ \E service \in CurveServices, literals \in CurveLiterals :
          \E v \in ValueLiterals \cup { literals[i] : i \in 1 .. Len(literals) } :
             InterpolateCustomCurve(service, Double(v[1], v[2]), Curve64(literals))

\* mergePaths on paths of up to two points each; the points differ in
\* position, depth (z) and power
MergePathsCall ==
    /\ pc = "idle"
    /\ LET points == { [x |-> 0, y |-> 0, z |-> Num(0), power |-> Num(10)],
                       [x |-> 1, y |-> 0, z |-> R(-1, 2), power |-> Num(20)],
                       [x |-> 0, y |-> 1, z |-> Num(-1), power |-> Num(30)] }
           paths == { <<>> } \cup { <<a>> : a \in points }
                        \cup { <<a, b>> : a \in points, b \in points }
       IN  \E path1 \in paths, path2 \in paths :
              /\ pc' = "done"
              /\ op' = "mergePaths"
              /\ call' = [path1 |-> path1, path2 |-> path2]
              /\ outcome' = "ok"
              /\ ret' = mergePaths(path1, path2)
    /\ UNCHANGED <<settings, depthMap, layer, passes, earlier, registry>>

FocalAdjustmentCall ==
    /\ pc = "idle"
    /\ \E depth \in { Num(-1), Num(0), R(1, 2), Num(2) },
          refractiveIndex \in { Num(-1), Num(0), Num(1), R(3, 2) } :
          CalculateFocalAdjustment(
              depth, [refractiveIndex |-> refractiveIndex, thickness |-> Num(3)])

Next ==
    \/ DeepEngravingCall
    \/ DeepEngravingLayer
    \/ DeepEngravingReturn
    \/ DeepEngravingLayerRejected
    \/ OptimizedToolpathsCall
    \/ PowerMapCall
    \/ PowerForGrayscaleCall
    \/ EnhancedDepthMapCall
    \/ InterpolateCustomCurveCall
    \/ FocalAdjustmentCall
    \/ MergePathsCall
    \/ EnhancedHeightmapCall
    \/ Reset

Spec == Init /\ [][Next]_vars

\* The registry under its register, export and import operations; an import
\* takes a document a caller wrote or the string the last export returned
RegistryNext ==
    \/ \E profile \in PrinterProfiles : AddPrinterProfile(profile)
    \/ \E profile \in LaserProfiles : AddLaserProfile(profile)
    \/ /\ Cardinality(MaterialEntries(registry)) < MaxMaterials
       /\ \E profile \in MaterialProfiles : AddMaterialProfile(profile)
    \/ \E profileName \in { "JPT 70W MOPA", "Custom printer", "wood", "Birch" },
          type \in { "printer", "laser", "material" } :
          ExportProfile(profileName, type, "2026-01-01T00:00:00.000Z")
    \/ /\ Cardinality(MaterialEntries(registry)) < MaxMaterials
       /\ LET document(type, profile) ==
                  [json |-> TRUE, type |-> type, profile |-> profile,
                   version |-> "1.0", timestamp |-> "2026-01-01T00:00:00.000Z"]
              written ==
                  { [document("", <<>>) EXCEPT !.json = FALSE] }
                  \cup { document(t, <<>>) :
                           t \in { "printer", "material", "resin", "undefined" } }
                  \cup { document("printer", <<p>>) :
                           p \in { q \in PrinterProfiles : q.manufacturer = "Other" } }
                  \cup { document("laser", <<p>>) :
                           p \in { q \in LaserProfiles : q.power = 30 } }
                  \cup { document("material", <<p>>) : p \in MaterialProfiles }
                  \cup { document("resin", <<p>>) :
                           p \in { q \in MaterialProfiles : q.thickness = 6 } }
              exported ==
                  IF op = "exportProfile" /\ outcome = "ok" THEN { ret } ELSE {}
          IN  \E profileData \in written \cup exported : ImportProfile(profileData)

RegistrySpec == Init /\ [][RegistryNext]_vars

----------------------------------------------------------------------------
(* Two requests in one session.  generateDeepEngraving is async and suspends
   at each await (lines 56, 75, 84); a caller that does not wait for the
   promise can invoke it again meanwhile.  Nothing in the service or in
   handleImageUpload refers to a running invocation: there is no
   cancellation token, no session object and no test of one. *)

\* The settings of the controls with each pass count up to the bound
SessionSettings ==
    { [uiSettings EXCEPT !.passLayers = n] : n \in 1 .. MaxLayers }

FirstRequest ==
    /\ pc = "idle"
    /\ \E image \in EngravingImages, s \in SessionSettings :
          GenerateDeepEngraving(image, s)

\* A second invocation while the first is suspended in its loop: the first
\* keeps its own locals and goes on; the new one runs lines 40-60.
SecondRequest ==
    /\ pc = "layer"
    /\ earlier.pc = "none"
    /\ \E image \in EngravingImages, s \in SessionSettings :
          /\ earlier' = [ pc |-> "layer", settings |-> settings, layer |-> layer,
                          passes |-> passes, outcome |-> "none", ret |-> NoReturn ]
          /\ call' = [image |-> image]
          /\ settings' = s
          /\ depthMap' = "allocated"
          /\ layer' = 0
          /\ passes' = <<>>
    /\ UNCHANGED <<pc, op, outcome, ret, registry>>

\* One iteration of the pass loop of the earlier invocation
EarlierLayer ==
    /\ earlier.pc = "layer"
    /\ earlier.layer < earlier.settings.passLayers
    /\ earlier' = [earlier EXCEPT
                      !.passes = Append(@, LayerPass(earlier.layer, earlier.settings)),
                      !.layer = @ + 1]
    /\ UNCHANGED <<pc, op, outcome, settings, depthMap, layer, passes, call, ret,
                   registry>>

\* Loop exit and return of the earlier invocation
EarlierReturn ==
    /\ earlier.pc = "layer"
    /\ ~(earlier.layer < earlier.settings.passLayers)
    /\ earlier' = [earlier EXCEPT
                      !.pc = "done",
                      !.outcome = "ok",
                      !.ret = [passes |-> earlier.passes, totalTime |-> 0,
                               maxDepth |-> earlier.settings.maxDepth]]
    /\ UNCHANGED <<pc, op, outcome, settings, depthMap, layer, passes, call, ret,
                   registry>>

SessionNext ==
    \/ FirstRequest
    \/ SecondRequest
    \/ DeepEngravingLayer
    \/ DeepEngravingReturn
    \/ EarlierLayer
    \/ EarlierReturn
    \/ Reset

SessionSpec == Init /\ [][SessionNext]_vars

----------------------------------------------------------------------------
(* Claims about generateDeepEngraving *)

Returned(f) == pc = "done" /\ op = f /\ outcome = "ok"

PassIndices == 1 .. Len(ret.passes)

\* C1: with passLayers = N >= 1, generateDeepEngraving returns exactly N
\* passes, the pass at 0-based position p has depth (p+1) * maxDepth / N, and
\* the last pass's depth is settings.maxDepth.
C1_PassCountAndDepths ==
    (Returned("generateDeepEngraving") /\ settings.passLayers >= 1) =>
        /\ Len(ret.passes) = settings.passLayers
        /\ \A i \in PassIndices :
              ret.passes[i].depth =
                  RDiv(RMul(Num(i), settings.maxDepth), Num(settings.passLayers))
        /\ ret.passes[Len(ret.passes)].depth = settings.maxDepth

C1_Witness ==
    /\ Returned("generateDeepEngraving")
    /\ settings.passLayers = 3
    /\ settings.maxDepth = R(1, 2)
    /\ Len(ret.passes) = 3
    /\ ret.passes[2].depth = R(1, 3)

\* The settings a plan request is to be refused for (depthPerPass belongs to
\* ToolpathSettings)
InvalidDeepEngravingSettings(s) ==
    \/ RLe(s.maxDepth, Num(0))
    \/ s.passLayers < 1
    \/ RGt(s.powerRamp.initial, s.powerRamp.max)

\* C2: for settings the planner accepts, in the returned pass list the power
\* never decreases from one pass to the next and every power is at most
\* min(powerRamp.max, maxPower) of the laser profile, whichever registered
\* profile the plan is run for.
C2_PowerMonotoneAndBounded ==
    ( /\ Returned("generateDeepEngraving")
      /\ ~InvalidDeepEngravingSettings(settings) ) =>
        \A i \in PassIndices :
            /\ i > 1 => RLe(ret.passes[i - 1].power, ret.passes[i].power)
            /\ \A laser \in defaultProfiles :
                  RLe(ret.passes[i].power,
                      RMin(settings.powerRamp.max, laser.maxPower))

\* C3: for settings the planner accepts, in the returned pass list the speed
\* never increases from one pass to the next and every speed is at least
\* speedProfile.min.
C3_SpeedMonotoneAndFloored ==
    ( /\ Returned("generateDeepEngraving")
      /\ ~InvalidDeepEngravingSettings(settings) ) =>
        \A i \in PassIndices :
            /\ i > 1 => RGe(ret.passes[i - 1].speed, ret.passes[i].speed)
            /\ RGe(ret.passes[i].speed, settings.speedProfile.min)

\* C5: every pass speed lies in [speedProfile.min, speedProfile.initial].
C5_SpeedInInterval ==
    Returned("generateDeepEngraving") =>
        \A i \in PassIndices :
            /\ RGe(ret.passes[i].speed, settings.speedProfile.min)
            /\ RLe(ret.passes[i].speed, settings.speedProfile.initial)

PassField(f) == [i \in PassIndices |-> ret.passes[i][f]]

\* C8: maxDepth = 2.0, passLayers = 4, powerRamp = {40, 3, 95} on the 4x4
\* white image gives four passes with powers 40, 43, 46, 49 and depths
\* 0.5, 1.0, 1.5, 2.0, in that order.
C8_Scenario ==
    ( /\ Returned("generateDeepEngraving")
      /\ call.image = [width |-> 4, height |-> 4, gray |-> 255]
      /\ settings.maxDepth = Num(2)
      /\ settings.passLayers = 4
      /\ settings.powerRamp =
            [initial |-> Num(40), increment |-> Num(3), max |-> Num(95)] ) =>
        /\ Len(ret.passes) = 4
        /\ PassField("power") = <<Num(40), Num(43), Num(46), Num(49)>>
        /\ PassField("depth") = <<R(1, 2), Num(1), R(3, 2), Num(2)>>

C8_Witness ==
    /\ Returned("generateDeepEngraving")
    /\ call.image = [width |-> 4, height |-> 4, gray |-> 255]
    /\ settings.maxDepth = Num(2)
    /\ settings.passLayers = 4
    /\ settings.powerRamp =
          [initial |-> Num(40), increment |-> Num(3), max |-> Num(95)]
    /\ Len(ret.passes) = 4
    /\ ret.passes[4].power = Num(49)

----------------------------------------------------------------------------
(* Claims about the power map, the toolpaths and the depth map *)

Within(x, lo, hi) == RGe(x, lo) /\ RLe(x, hi)

\* C4: every power value lies in [profile.minPower, profile.maxPower]: each
\* entry of each powerMap of generatePowerMap, and each result of
\* calculatePowerForGrayscale called with the profile's minPower and maxPower.
C4_PowerWithinProfileRange ==
    /\ Returned("generatePowerMap") =>
          \A k \in 1 .. Len(ret) :
            \A y \in 1 .. Len(ret[k].powerMap) :
              \A x \in 1 .. Len(ret[k].powerMap[y]) :
                Within(ret[k].powerMap[y][x],
                       call.profile.minPower, call.profile.maxPower)
    /\ ( /\ Returned("calculatePowerForGrayscale")
         /\ call.options.minPower = call.profile.minPower
         /\ call.options.maxPower = call.profile.maxPower ) =>
          Within(ret, call.profile.minPower, call.profile.maxPower)

\* C6: in every returned pass list the target depth never decreases from one
\* pass to the next, and the last pass's target depth is the configured
\* maxDepth.  (ToolpathSettings has no maxDepth, so for
\* generateOptimizedToolpaths only the order is stated; the target depth of a
\* generatePowerMap pass is -zOffset.)
C6_DepthNonDecreasingToMaxDepth ==
    /\ Returned("generateDeepEngraving") =>
          /\ \A i \in PassIndices :
                i > 1 => RLe(ret.passes[i - 1].depth, ret.passes[i].depth)
          /\ ret.passes # <<>> =>
                ret.passes[Len(ret.passes)].depth = settings.maxDepth
    /\ Returned("generateOptimizedToolpaths") =>
          \A i \in 2 .. Len(ret) : RLe(ret[i - 1].depth, ret[i].depth)
    /\ Returned("generatePowerMap") =>
          /\ \A i \in 2 .. Len(ret) :
                RLe(RNeg(ret[i - 1].zOffset), RNeg(ret[i].zOffset))
          /\ ret # <<>> => RNeg(ret[Len(ret)].zOffset) = call.options.maxDepth

\* C7: generateOptimizedToolpaths returns
\* ceil(max(heightmap) * maxPasses / depthPerPass) passes capped by maxPasses:
\* for depthPerPass > 0 never more than maxPasses.
C7_PassCountCapped ==
    ( /\ Returned("generateOptimizedToolpaths")
      /\ RGt(call.settings.depthPerPass, Num(0)) ) =>
        LET wanted == RCeil(RDiv(RMul(MaxOf(Flat(call.heightmap)),
                                      Num(call.settings.maxPasses)),
                                 call.settings.depthPerPass))
        IN  /\ Len(ret) = IF wanted < call.settings.maxPasses
                          THEN wanted ELSE call.settings.maxPasses
            /\ Len(ret) <= call.settings.maxPasses

\* C9: a plan request with maxDepth <= 0, passLayers < 1, depthPerPass <= 0 or
\* powerRamp.initial > powerRamp.max fails with InvalidSettings and returns no
\* passes, and it is rejected before a depth-map buffer is allocated or a pass
\* is computed.
C9_InvalidSettingsRejected ==
    /\ (op = "generateDeepEngraving" /\ InvalidDeepEngravingSettings(settings)) =>
          /\ depthMap = "none"
          /\ passes = <<>>
          /\ pc = "done" => (outcome = "InvalidSettings" /\ ret.passes = <<>>)
    /\ ( /\ op = "generateOptimizedToolpaths"
         /\ pc = "done"
         /\ RLe(call.settings.depthPerPass, Num(0)) ) =>
          (outcome = "InvalidSettings" /\ ret = <<>>)

NonDecreasing(curve) ==
    \A i \in 2 .. Len(curve) : RLe(curve[i - 1], curve[i])

InvalidDepthMapInput(imageData, s) ==
    \/ imageData.width = 0
    \/ imageData.height = 0
    \/ /\ s.depthCurve = "custom"
       /\ \/ s.customCurve = <<>>
          \/ Len(s.customCurve[1]) < 2
          \/ ~NonDecreasing(s.customCurve[1])

\* C10: depth-map generation fails with InvalidInput for an image of zero
\* width or height and for depthCurve = custom with customCurve missing,
\* unsorted or shorter than 2 points; a missing customCurve never gives what
\* the linear curve gives.
C10_InvalidInputRejected ==
    (op = "generateEnhancedDepthMap" /\ pc = "done") =>
        /\ InvalidDepthMapInput(call.image, call.settings) =>
              outcome = "InvalidInput"
        /\ (call.settings.depthCurve = "custom" /\ call.settings.customCurve = <<>>) =>
              ~( /\ outcome = "ok"
                 /\ ret.processedScales =
                      processedScales(call.image,
                                      [call.settings EXCEPT !.depthCurve = "linear"]) )

\* C11: for valid settings and every image, every element of every per-scale
\* buffer that generateEnhancedDepthMap produces lies in [0, 1], also after
\* the unsharp-mask detail enhancement and the custom-curve transform.
C11_DepthMapInUnitRange ==
    ( /\ Returned("generateEnhancedDepthMap")
      /\ ~InvalidDepthMapInput(call.image, call.settings) ) =>
        \A k \in 1 .. Len(ret.processedScales) :
            \A i \in 1 .. Len(ret.processedScales[k]) :
                Within(ret.processedScales[k][i], Num(0), Num(1))

NonDecreasing64(curve) ==
    \A i \in 2 .. Len(curve) : ~DLt(curve[i], curve[i - 1])

\* C12: for every non-decreasing curve with at least 2 points and every index
\* i, interpolateCustomCurve(curve[i], curve) returns exactly curve[i], also
\* when adjacent control points are equal.
C12_IdempotentAtControlPoints ==
    ( /\ Returned("interpolateCustomCurve")
      /\ Len(call.curve) >= 2
      /\ NonDecreasing64(call.curve)
      /\ \E i \in 1 .. Len(call.curve) : call.value = call.curve[i] ) =>
        ret = call.value

\* C14: the pass list handed to the caller is in ascending pass order without
\* gaps or duplicates: the entry at 0-based position k carries the 1-based
\* index k + 1 (pass of generateOptimizedToolpaths, passNumber of
\* generatePowerMap).
C14_PassesInIndexOrder ==
    /\ Returned("generateOptimizedToolpaths") =>
          \A k \in 1 .. Len(ret) : ret[k].pass = k
    /\ Returned("generatePowerMap") =>
          \A k \in 1 .. Len(ret) : ret[k].passNumber = k

C14_Witness ==
    /\ Returned("generateOptimizedToolpaths")
    /\ Len(ret) >= 3
    /\ ret[3].pass = 3

----------------------------------------------------------------------------
(* Claims about two requests in one session *)

\* C16: at every moment at most one computation of a session is active: a new
\* request cancels the one in flight before the new one starts.
C16_AtMostOneActive ==
    ~(pc = "layer" /\ earlier.pc = "layer")

\* C17: when plan is requested a second time before the first request
\* completes, the first resolves to Cancelled, never to a pass list, and the
\* second completes normally with its full pass list.
C17_FirstCancelledSecondCompletes ==
    /\ earlier.pc = "done" =>
          (earlier.outcome = "Cancelled" /\ earlier.ret.passes = <<>>)
    /\ (earlier.pc # "none" /\ pc = "done") =>
          (outcome = "ok" /\ Len(ret.passes) = settings.passLayers)

----------------------------------------------------------------------------
(* Claims about the profile registry *)

\* The registered material profiles of a name
MaterialsNamed(name) ==
    { e \in MaterialEntries(registry) : registry.material[e[1]][e[2]].name = name }

RegisteredNames(reg) ==
    [ printer |-> DOMAIN reg.printer,
      laser |-> DOMAIN reg.laser,
      material |-> { reg.material[e[1]][e[2]].name : e \in MaterialEntries(reg) } ]

LastWriteWins ==
    /\ op = "addPrinterProfile" =>
          getPrinterProfile(call.profile.name) = << call.profile >>
    /\ op = "addLaserProfile" =>
          getLaserProfile(call.profile.name) = << call.profile >>
    /\ op = "addMaterialProfile" =>
          /\ Cardinality(MaterialsNamed(call.profile.name)) = 1
          /\ \A e \in MaterialsNamed(call.profile.name) :
                registry.material[e[1]][e[2]] = call.profile

NamesKept ==
    /\ RegisteredNames(registry).printer \subseteq RegisteredNames(registry').printer
    /\ RegisteredNames(registry).laser \subseteq RegisteredNames(registry').laser
    /\ RegisteredNames(registry).material \subseteq RegisteredNames(registry').material

\* C18: registration is last-write-wins without deletion: after a register
\* operation the lookup of the name gives the profile just registered, a name
\* registered again has one entry, not two (printer, laser and material
\* profiles alike), and a registered name never becomes absent.
C18_LastWriteWinsNoDeletion ==
    []LastWriteWins /\ [][NamesKept]_vars

----------------------------------------------------------------------------
(* Claims about the power mapping *)

\* The reference mapping of a gray value to a power: gamma, then contrast
\* 0.5 + (v - 0.5) * (1 + contrast/100) and brightness v + brightness/100
\* clamped to [0, 1], the index floor(v * 255) into the power curve, and the
\* looked-up value rescaled into [minPower, maxPower]
ReferencePower(profile, grayscaleValue, o) ==
    LET gamma == RPow(grayscaleValue, RDiv(Num(1), o.gamma))
        v == applyContrastBrightness(gamma, o.contrast, o.brightness)
        index == RFloor(RMul(v, Num(255)))
    IN  RAdd(o.minPower, RMul(RSub(o.maxPower, o.minPower), powerCurve(index)))

\* C19: calculatePowerForGrayscale equals the reference mapping for every
\* gray value in [0, 1].
C19_EqualsReferenceMapping ==
    Returned("calculatePowerForGrayscale") =>
        ret = ReferencePower(call.profile, call.grayscaleValue, call.options)

\* C20: the focus-offset computation for a material fails with
\* InvalidMaterial whenever material.refractiveIndex <= 0 and returns no
\* numeric value then.
C20_InvalidMaterialRejected ==
    ( /\ op = "calculateFocalAdjustment"
      /\ pc = "done"
      /\ RLe(call.material.refractiveIndex, Num(0)) ) =>
        outcome = "InvalidMaterial"


\* C21: when path generation fails during a generateDeepEngraving call, the
\* call ends with one error and no pass list; a caller that does receive a
\* pass list receives the one of a loop that ran to its end, never the passes
\* computed before a failure.
C21_FailureYieldsNoPartialList ==
    (pc = "done" /\ op = "generateDeepEngraving") =>
        \/ outcome = "rejected" /\ ret = NoReturn
        \/ /\ outcome = "ok"
           /\ ret.passes = passes
           /\ ~(layer < settings.passLayers)

C21_Witness ==
    /\ pc = "done"
    /\ op = "generateDeepEngraving"
    /\ outcome = "rejected"
    /\ Len(passes) >= 2
    /\ Len(passes) < settings.passLayers
    /\ ret = NoReturn

\* The pixels of a returned power map, as <<pass, row, column>>
PowerPixels ==
    { <<k, y, x>> \in (1 .. Len(ret)) \X (1 .. MaxHeight) \X (1 .. MaxWidth) :
        y <= Len(call.heightmap) /\ x <= Len(call.heightmap[y]) }

\* targetDepth - depthPerPass of the k-th pass
CutBefore(k) ==
    RSub(RMul(Num(k), call.options.depthPerPass), call.options.depthPerPass)

RequiredDepth(y, x) == RMul(call.heightmap[y][x], call.options.maxDepth)

AllZero(k) == \A px \in PowerPixels : px[1] = k => ret[k].powerMap[px[2]][px[3]] = Num(0)

\* C22: a pixel has non-zero power in a pass only if its required depth
\* (heightValue * maxDepth) exceeds targetDepth - depthPerPass; a heightmap
\* that is fully cut at a pass gets an all-zero power map for that pass, the
\* call still returns, and all the passes of the loop are produced.
C22_PowerOnlyBelowRequiredDepth ==
    (pc = "done" /\ op = "generatePowerMap") =>
        /\ outcome = "ok"
        /\ Len(ret) = actualPasses(call.options)
        /\ \A k \in 1 .. Len(ret) :
              /\ ret[k].passNumber = k
              /\ Len(ret[k].powerMap) = Len(call.heightmap)
              /\ \A y \in 1 .. Len(call.heightmap) :
                    Len(ret[k].powerMap[y]) = Len(call.heightmap[y])
        /\ \A px \in PowerPixels :
              ret[px[1]].powerMap[px[2]][px[3]] # Num(0) =>
                  RGt(RequiredDepth(px[2], px[3]), CutBefore(px[1]))

\* A pass with power, then an all-zero pass, then one more pass
C22_Witness ==
    /\ Returned("generatePowerMap")
    /\ Len(ret) = 3
    /\ ~AllZero(1)
    /\ AllZero(2)
    /\ \E y \in 1 .. Len(call.heightmap) : \E x \in 1 .. Len(call.heightmap[y]) :
          RGt(RequiredDepth(y, x), Num(0))

\* C23: the merged path is the primary path followed by the crosshatch path:
\* its length is the sum of the two lengths, the primary points come first in
\* their order, the crosshatch points follow in theirs, and every point is
\* the point that was given, depth and power included.
C23_MergeIsConcatenation ==
    (pc = "done" /\ op = "mergePaths") =>
        /\ Len(ret) = Len(call.path1) + Len(call.path2)
        /\ \A i \in 1 .. Len(call.path1) : ret[i] = call.path1[i]
        /\ \A j \in 1 .. Len(call.path2) : ret[Len(call.path1) + j] = call.path2[j]

C23_Witness ==
    /\ Returned("mergePaths")
    /\ Len(call.path1) = 2
    /\ Len(call.path2) = 2
    /\ call.path1[1] # call.path1[2]
    /\ call.path1[2] # call.path2[1]
    /\ Len(ret) = 4

\* The power of pixel (y, x) in the k-th pass of the returned map
PowerAt(k, y, x) == ret[k].powerMap[y][x]

FullPower == RMul(call.profile.maxPower, call.options.powerAdjustment)

\* The depth the k-th pass removes at the pixel: its share of full power
\* times depthPerPass
DepthCut(k, y, x) ==
    RMul(RDiv(PowerAt(k, y, x), FullPower), call.options.depthPerPass)

PixelsOfCall ==
    { c \in (1 .. MaxHeight) \X (1 .. MaxWidth) :
        c[1] <= Len(call.heightmap) /\ c[2] <= Len(call.heightmap[c[1]]) }

\* C27: for every pixel the depths cut by the passes of generatePowerMap,
\* (power / (maxPower * powerAdjustment)) * depthPerPass, add up to
\* min(requiredDepth, actualPasses * depthPerPass).
C27_DepthAccounting ==
    Returned("generatePowerMap") =>
        \A c \in PixelsOfCall :
           SumOf([ k \in 1 .. Len(ret) |-> DepthCut(k, c[1], c[2]) ])
             = RMin(RequiredDepth(c[1], c[2]),
                    RMul(Num(actualPasses(call.options)), call.options.depthPerPass))

\* A pixel cut in full, then in part, and a pixel deeper than the passes reach
C27_Witness ==
    /\ Returned("generatePowerMap")
    /\ Len(ret) >= 2
    /\ \E c \in PixelsOfCall :
          /\ PowerAt(1, c[1], c[2]) = FullPower
          /\ RGt(PowerAt(2, c[1], c[2]), Num(0))
          /\ RLt(PowerAt(2, c[1], c[2]), FullPower)
    /\ \E c \in PixelsOfCall :
          RGt(RequiredDepth(c[1], c[2]),
              RMul(Num(Len(ret)), call.options.depthPerPass))

\* C28: along the passes the power of a pixel never rises: it is full in
\* every pass whose target depth does not exceed the required depth, partial
\* in at most one pass, and 0 in every pass after the first 0.
C28_PowerNonIncreasing ==
    Returned("generatePowerMap") =>
        \A c \in PixelsOfCall :
           LET power(k) == PowerAt(k, c[1], c[2])
               partial == { k \in 1 .. Len(ret) :
                              RGt(power(k), Num(0)) /\ RLt(power(k), FullPower) }
           IN  /\ \A k \in 1 .. Len(ret) :
                     /\ RGe(power(k), Num(0))
                     /\ RLe(power(k), FullPower)
                     /\ RLe(RMul(Num(k), call.options.depthPerPass),
                            RequiredDepth(c[1], c[2])) => power(k) = FullPower
               /\ \A k \in 1 .. Len(ret) - 1 :
                     /\ RLe(power(k + 1), power(k))
                     /\ power(k) = Num(0) => power(k + 1) = Num(0)
               /\ Cardinality(partial) <= 1

\* One pixel goes through full, partial and zero power in three passes
C28_Witness ==
    /\ Returned("generatePowerMap")
    /\ Len(ret) = 3
    /\ \E c \in PixelsOfCall :
          /\ PowerAt(1, c[1], c[2]) = FullPower
          /\ RGt(PowerAt(2, c[1], c[2]), Num(0))
          /\ RLt(PowerAt(2, c[1], c[2]), FullPower)
          /\ PowerAt(3, c[1], c[2]) = Num(0)

----------------------------------------------------------------------------
(* Claims about registration, import and export.  importProfile is declared
   async but holds no await and the add*Profile methods are synchronous: each
   call runs to completion before another callback starts, so a registration
   is one step and calls of several callers interleave as whole steps. *)

\* The step registers profile p of the kind, directly or by import
StepRegisters(kind, p) ==
    \/ /\ op' = CASE kind = "printer" -> "addPrinterProfile"
                  [] kind = "laser" -> "addLaserProfile"
                  [] kind = "material" -> "addMaterialProfile"
       /\ call' = [profile |-> p]
    \/ /\ op' = "importProfile"
       /\ call'.profileData.json
       /\ call'.profileData.type = kind
       /\ call'.profileData.profile = << p >>

IsPrefix(s, t) == Len(s) <= Len(t) /\ \A i \in 1 .. Len(s) : t[i] = s[i]

NoRegistrationLost ==
    /\ \A kind \in { "printer", "laser" } :
          /\ \A p \in PrinterProfiles \cup LaserProfiles :
                StepRegisters(kind, p) =>
                    /\ p.name \in DOMAIN registry'[kind]
                    /\ registry'[kind][p.name] = p
          /\ \A n \in DOMAIN registry[kind] :
                /\ n \in DOMAIN registry'[kind]
                /\ \/ registry'[kind][n] = registry[kind][n]
                   \/ StepRegisters(kind, registry'[kind][n])
    /\ \A p \in MaterialProfiles :
          StepRegisters("material", p) =>
              /\ p.type \in DOMAIN registry'.material
              /\ registry'.material[p.type] =
                     Append(getMaterialProfiles(p.type), p)
    /\ \A t \in DOMAIN registry.material :
          /\ t \in DOMAIN registry'.material
          /\ IsPrefix(registry.material[t], registry'.material[t])

WholeProfiles ==
    /\ \A n \in DOMAIN registry.printer :
          /\ registry.printer[n].name = n
          /\ \/ registry.printer[n] \in PrinterProfiles
             \/ /\ n \in DOMAIN initializeDefaultProfiles.printer
                /\ registry.printer[n] = initializeDefaultProfiles.printer[n]
    /\ \A n \in DOMAIN registry.laser :
          /\ registry.laser[n].name = n
          /\ \/ registry.laser[n] \in LaserProfiles
             \/ /\ n \in DOMAIN initializeDefaultProfiles.laser
                /\ registry.laser[n] = initializeDefaultProfiles.laser[n]
    /\ \A t \in DOMAIN registry.material \ { "undefined" } :
          \A i \in 1 .. Len(registry.material[t]) :
             /\ registry.material[t][i] \in MaterialProfiles
             /\ registry.material[t][i].type = t

\* C24: under every interleaving of registrations (importProfile and the
\* add*Profile methods) no registration is lost or torn: a registered laser
\* or printer name resolves to a whole profile registered under it, a step
\* changes a name's profile only by registering another under it, and a
\* material-type list keeps every profile registered for the type, the new
\* one appended.
C24_NoLostOrTornRegistration ==
    []WholeProfiles /\ [][NoRegistrationLost]_vars

C24_Witness ==
    /\ op = "importProfile"
    /\ ret = TRUE
    /\ call.profileData.type = "material"
    /\ call.profileData.profile[1] \in MaterialProfiles
    /\ "wood" \in DOMAIN registry.material
    /\ Len(registry.material["wood"]) = 2
    /\ registry.material["wood"][1] # registry.material["wood"][2]
    /\ "acrylic" \in DOMAIN registry.material
    /\ "Custom printer" \in DOMAIN registry.printer

\* Every lookup of the service gives the same result in the two registries
SameLookups(before, after) ==
    /\ DOMAIN after.printer = DOMAIN before.printer
    /\ \A n \in DOMAIN before.printer : after.printer[n] = before.printer[n]
    /\ DOMAIN after.laser = DOMAIN before.laser
    /\ \A n \in DOMAIN before.laser : after.laser[n] = before.laser[n]
    /\ DOMAIN after.material = DOMAIN before.material
    /\ \A t \in DOMAIN before.material : after.material[t] = before.material[t]

\* C29: export followed by import is a round trip for every profile kind:
\* importProfile of the string exportProfile returned gives true and leaves
\* getPrinterProfile, getLaserProfile, getMaterialProfiles and
\* getAllMaterialTypes as they were.
C29_ExportImportRoundTrip ==
    [][ ( /\ op = "exportProfile"
          /\ outcome = "ok"
          /\ op' = "importProfile"
          /\ call' = [profileData |-> ret] )
        => (ret' = TRUE /\ SameLookups(registry, registry')) ]_vars

\* A document importProfile cannot register anything from
Unusable(profileData) ==
    \/ ~profileData.json
    \/ profileData.profile = <<>>
    \/ profileData.type \notin { "printer", "laser", "material" }

\* C30: importProfile gives false and changes no registry for a document
\* that does not parse, has no profile body or has a type other than printer,
\* laser and material; exportProfile of a name that is not registered for
\* the type fails with 'Profile not found' and changes nothing.
C30_UnusableDocumentRejected ==
    [][ /\ (op' = "importProfile" /\ Unusable(call'.profileData)) =>
              (ret' = FALSE /\ SameLookups(registry, registry'))
        /\ ( /\ op' = "exportProfile"
             /\ call'.profileName \notin RegisteredNames(registry)[call'.type] ) =>
              (outcome' = "Profile not found" /\ SameLookups(registry, registry'))
      ]_vars

----------------------------------------------------------------------------
(* Claims about the heightmap of LaserEngravingService *)

HeightmapValues ==
    { ret[y][x] : <<y, x>> \in
        { c \in (1 .. MaxHeight) \X (1 .. MaxWidth) :
            c[1] <= Len(ret) /\ c[2] <= Len(ret[c[1]]) } }

\* C25: every value of the heightmap generateEnhancedHeightmap returns lies
\* in [0, 1], for every image, curve, levels value and invert setting, and
\* with levels > 1 every value is a multiple of 1 / (levels - 1).
C25_HeightmapInUnitRange ==
    (pc = "done" /\ op = "generateEnhancedHeightmap") =>
        \A v \in HeightmapValues :
           /\ RGe(v, Num(0))
           /\ RLe(v, Num(1))
           /\ RGt(call.settings.levels, Num(1)) =>
                 LET steps == RMul(v, RSub(call.settings.levels, Num(1)))
                 IN  Num(RFloor(steps)) = steps

StrictlyIncreasing64(curve) ==
    \A i \in 1 .. Len(curve) - 1 : DLt(curve[i], curve[i + 1])

\* C26: for a strictly increasing curve of two or more points,
\* DepthMapService.interpolateCustomCurve returns the input clamped to
\* [curve[0], curve[last]]: the result lies between the first and the last
\* control point and is the input itself when the input is in that range.
C26_InterpolationClamps ==
    ( /\ pc = "done"
      /\ op = "interpolateCustomCurve"
      /\ call.service = "DepthMapService"
      /\ Len(call.curve) >= 2
      /\ StrictlyIncreasing64(call.curve) ) =>
        LET first == call.curve[1]
            last == call.curve[Len(call.curve)]
        IN  /\ ~DLt(ret, first)
            /\ ~DLt(last, ret)
            /\ ret = IF DLt(call.value, first) THEN first
                     ELSE IF DLt(last, call.value) THEN last
                     ELSE call.value
====
